---------------------------- MODULE Spec2Model ----------------------------
(***************************************************************************)
(* Session-based authentication of the clinic records API.                 *)
(*                                                                         *)
(* The model follows the source: the session service (AuthService), the   *)
(* identity-resolution preHandler hook and the auth routes.  Every await   *)
(* of the source is a point where other requests and the clock may move,   *)
(* so a handler is cut into one action per awaited store operation: an     *)
(* action is the landing of that operation together with the synchronous  *)
(* code that runs when it resolves (up to the next await).                 *)
(*                                                                         *)
(* Times are milliseconds, as in the source; the clock of the model moves  *)
(* in steps of a quarter of the session lifetime.                          *)
(***************************************************************************)
EXTENDS Integers, FiniteSets, Sequences, TLC

VARIABLES
    users,      \* User collection: _id -> [email, hashed_password, role]
    sessions,   \* Session collection: _id -> [user_id, active_expires, idle_expires]
    now,        \* Date.now()
    nextTok,    \* number of session ids generateSessionId has produced
    pc,         \* per request slot: the await the request is parked on
    rq,         \* per request slot: the request, the locals of the code, the reply
    hist,       \* what the requests and the callers of the session service
                \* have done (observation only)
    patients,   \* Patient collection: _id -> [firstName, lastName, notes]
    srv         \* the serverless process: the flags and the app of api/index.ts

vars == <<users, sessions, now, nextTok, pc, rq, hist, patients, srv>>

---------------------------------------------------------------------------
(* Bounds of the model *)

\* The clock stops after MaxTicks steps.
MaxTicks == 5

\* generateSessionId is called at most MaxSessions times.
MaxSessions == 2

\* setupApp is called at most MaxSetups times.
MaxSetups == 3

\* The names of request bodies have at most MaxNameLen characters.
MaxNameLen == 2

\* Two requests can be in flight at once.
Procs == {"r1", "r2"}

---------------------------------------------------------------------------
(* Values *)

Null == [null |-> TRUE]

\* private static readonly SESSION_DURATION = 1000 * 60 * 60 * 24 * 7
SESSION_DURATION == 1000 * 60 * 60 * 24 * 7

\* One step of the clock of the model.
ClockStep == SESSION_DURATION \div 4

Emails == {"a@x.com", "b@x.com"}
Passwords == {"p1", "p2"}
Roles == {"admin", "doctor", "nurse", "assistant"}

\* The empty string, as a cookie value, an email or a password.
Empty == ""

\* Session ids: 0 is the empty cookie value, 1..MaxSessions are the ids
\* generateSessionId returns, in order.  BogusToken is a cookie value that
\* was never issued.
EmptyToken == 0
BogusToken == MaxSessions + 1

\* User ids: 1, 2, ... are the ids randomUUID returns, in order.  GhostUser
\* is the id of an account that is no longer in the store.
GhostUser == 0

\* argon2.hash: the hash embeds the algorithm tag and stands for the
\* password it was made from.
Hash(password) == <<"argon2id", password>>

\* A stored hash that is not a PHC string: a value no argon2.hash produced.
MalformedHash == <<"malformed", Empty>>

\* argon2.verify rejects (it throws while parsing the digest) when the
\* stored hash is not a PHC string.
VerifyRaises(hashed) == hashed[1] # "argon2id"

\* argon2.verify
Verify(hashed, password) == hashed[1] = "argon2id" /\ hashed[2] = password

---------------------------------------------------------------------------
(* The store *)

\* Session.findById
SessionFindById(id) ==
    IF id \in DOMAIN sessions THEN sessions[id] @@ [_id |-> id] ELSE Null

\* User.findById
UserFindById(id) ==
    IF id \in DOMAIN users THEN users[id] @@ [_id |-> id] ELSE Null

\* User.findOne({ email })
UserFindOne(email) ==
    IF \E id \in DOMAIN users : users[id].email = email
    THEN LET id == CHOOSE i \in DOMAIN users : users[i].email = email
         IN  users[id] @@ [_id |-> id]
    ELSE Null

\* Session.findByIdAndDelete: deleting an absent id changes nothing.
SessionFindByIdAndDelete(id) ==
    [t \in DOMAIN sessions \ {id} |-> sessions[t]]

\* SessionFindByIdAndUpdate called with { upsert: true }.
SessionFindByIdAndUpdateUpsert(id, expires) ==
    IF id \in DOMAIN sessions
    THEN [sessions EXCEPT ![id].active_expires = expires,
                          ![id].idle_expires = expires]
    ELSE sessions @@ [t \in {id} |->
                         [user_id |-> GhostUser,
                          active_expires |-> expires,
                          idle_expires |-> expires]]

\* Session.findByIdAndUpdate: without upsert an absent id is not created.
SessionFindByIdAndUpdate(id, expires) ==
    IF id \in DOMAIN sessions
    THEN [sessions EXCEPT ![id].active_expires = expires,
                          ![id].idle_expires = expires]
    ELSE sessions

\* SessionDeleteMany with an empty filter: deleteMany({})
SessionDeleteManyAll(userId) == [t \in {} |-> sessions[t]]

\* Session.deleteMany({ user_id })
SessionDeleteMany(userId) ==
    [t \in {x \in DOMAIN sessions : sessions[x].user_id # userId} |-> sessions[t]]


---------------------------------------------------------------------------
(* AuthService: the synchronous pieces of createSession and validateSession *)

\* generateSessionId: randomBytes(32) never repeats; the ids come in order.
GenerateSessionId == nextTok + 1

\* NewSession with the lifetime subtracted instead of added.
NewSessionBackdated(userId, t) ==
    [user_id |-> userId,
     active_expires |-> t - SESSION_DURATION,
     idle_expires |-> t - SESSION_DURATION]

\* The record createSession saves: expiresAt = Date.now() + SESSION_DURATION
NewSession(userId, t) ==
    [user_id |-> userId,
     active_expires |-> t + SESSION_DURATION,
     idle_expires |-> t + SESSION_DURATION]

\* session.active_expires < Date.now()
Expired(session, t) == session.active_expires < t

\* NearExpiry without the division by 2.
NearExpiryWholeLifetime(session, t) ==
    session.active_expires - t < SESSION_DURATION

\* timeUntilExpiry < this.SESSION_DURATION / 2
NearExpiry(session, t) ==
    2 * (session.active_expires - t) < SESSION_DURATION

\* newExpiresAt = Date.now() + this.SESSION_DURATION
NewExpiresAt(t) == t + SESSION_DURATION

\* return { session: null, user: null }
NullResult == [session |-> Null, user |-> Null]

\* ValidResult that returns the user document as it was read.
ValidResultWholeUser(session, user) ==
    [session |-> [id |-> session._id,
                  userId |-> session.user_id,
                  expiresAt |-> session.active_expires],
     user |-> user]

\* The value validateSession returns for a session it found valid: built
\* from the session document as it was read and from the user document.
ValidResult(session, user) ==
    [session |-> [id |-> session._id,
                  userId |-> session.user_id,
                  expiresAt |-> session.active_expires],
     user |-> [id |-> user._id, email |-> user.email, role |-> user.role]]

\* The value one uninterrupted validateSession(id) returns in the current
\* state when every store operation succeeds.
ValidateNow(id) ==
    IF id = EmptyToken THEN NullResult
    ELSE LET session == SessionFindById(id) IN
         IF session = Null \/ Expired(session, now) THEN NullResult
         ELSE LET user == UserFindById(session.user_id) IN
              IF user = Null THEN NullResult
              ELSE ValidResult(session, user)

\* CreateSessionCookie without the conversion to seconds.
CreateSessionCookieMillis(sessionId, secure) ==
    [name |-> "session",
     value |-> sessionId,
     attributes |-> [httpOnly |-> TRUE,
                     secure |-> secure,
                     sameSite |-> "lax",
                     path |-> "/",
                     maxAge |-> SESSION_DURATION]]

\* createSessionCookie
CreateSessionCookie(sessionId, secure) ==
    [name |-> "session",
     value |-> sessionId,
     attributes |-> [httpOnly |-> TRUE,
                     secure |-> secure,
                     sameSite |-> "lax",
                     path |-> "/",
                     maxAge |-> SESSION_DURATION \div 1000]]

---------------------------------------------------------------------------
(* Requests *)

\* A request slot between requests: no cookie read yet, no locals, and the
\* reply of the request that ran before (Null at the start).
FreshRq(reply) ==
    [cookie |-> EmptyToken,
     session |-> Null,          \* validateSession: const session
     user |-> Null,             \* validateSession: const user; login: const user
     newExpiresAt |-> 0,        \* validateSession: const newExpiresAt
     reqUser |-> Null,          \* request.user
     reqSession |-> Null,       \* request.session
     body |-> Null,             \* req.body
     userId |-> GhostUser,      \* signup: const userId
     reply |-> reply]

\* What a request has done so far; observation only, no action reads it.
FreshHist ==
    [route |-> "none",          \* the route that handled the request
     case |-> "none",           \* how a login was rejected
     fault |-> FALSE,           \* a store operation of validateSession failed
     storeOps |-> 0,            \* store operations validateSession issued
     late |-> FALSE,            \* it began after the session was evicted
     afterRevoke |-> FALSE,     \* it began after the session was revoked
     wroteAbsent |-> FALSE,     \* its extension write found no record
     expired |-> FALSE,         \* validateSession found the session expired
     orphan |-> FALSE,          \* validateSession found no owner
     returned |-> Null]         \* the value validateSession returned

\* The cookie jar of an incoming request: no session cookie, a session id
\* issued earlier, or a value that was never a session id.
IncomingCookies == {EmptyToken, BogusToken} \cup (1..nextTok)

\* Date.now() moves forward.
Tick ==
    /\ now < MaxTicks * ClockStep
    /\ now' = now + ClockStep
    /\ UNCHANGED <<users, sessions, nextTok, pc, rq, hist>>
    /\ UNCHANGED <<patients, srv>>

---------------------------------------------------------------------------
(* plugins/auth.ts: the preHandler hook, and validateSession under it *)

\* HookDone that attaches the user and leaves request.session null.
HookDoneUserOnly(p, result) ==
    /\ pc' = [pc EXCEPT ![p] = "handler"]
    /\ rq' = [rq EXCEPT ![p] = [@ EXCEPT !.reqUser = result.user,
                                         !.reqSession = Null,
                                         !.session = Null,
                                         !.user = Null,
                                         !.newExpiresAt = 0]]

\* const { session, user } = await auth.validateSession(sessionId);
\* request.user = user; request.session = session; the hook returns and
\* the route handler is next.
HookDone(p, result) ==
    /\ pc' = [pc EXCEPT ![p] = "handler"]
    /\ rq' = [rq EXCEPT ![p] = [@ EXCEPT !.reqUser = result.user,
                                         !.reqSession = result.session,
                                         !.session = Null,
                                         !.user = Null,
                                         !.newExpiresAt = 0]]

\* A request arrives with cookie c.  With no session cookie the hook sets
\* user and session to null and returns; otherwise it calls validateSession,
\* which issues Session.findById.
PreHandler(p, c) ==
    /\ pc[p] = "idle"
    /\ hist' = [hist EXCEPT !.req[p] =
                   [FreshHist EXCEPT !.late = (c \in hist.evicted),
                                     !.afterRevoke = (c \in hist.revoked)]]
    /\ IF c = EmptyToken
       THEN /\ pc' = [pc EXCEPT ![p] = "handler"]
            /\ rq' = [rq EXCEPT ![p] = FreshRq(Null)]
       ELSE /\ pc' = [pc EXCEPT ![p] = "vFind"]
            /\ rq' = [rq EXCEPT ![p] = [FreshRq(Null) EXCEPT !.cookie = c]]
    /\ UNCHANGED <<users, sessions, now, nextTok>>
    /\ UNCHANGED <<patients, srv>>

\* Session.findById resolves; the expiry check runs.
VFindSession(p) ==
    /\ pc[p] = "vFind"
    /\ LET session == SessionFindById(rq[p].cookie) IN
       IF session = Null \/ Expired(session, now)
       THEN IF session # Null
            THEN /\ pc' = [pc EXCEPT ![p] = "vDelExpired"]
                 /\ rq' = [rq EXCEPT ![p].session = session]
                 /\ hist' = [hist EXCEPT !.req[p].storeOps = 1,
                                          !.req[p].expired = TRUE]
            ELSE /\ HookDone(p, NullResult)
                 /\ hist' = [hist EXCEPT !.req[p].storeOps = 1,
                                          !.req[p].returned = NullResult]
       ELSE /\ pc' = [pc EXCEPT ![p] = "vFindUser"]
            /\ rq' = [rq EXCEPT ![p].session = session]
            /\ hist' = [hist EXCEPT !.req[p].storeOps = 1]
    /\ UNCHANGED <<users, sessions, now, nextTok>>
    /\ UNCHANGED <<patients, srv>>

\* Session.findByIdAndDelete of the expired session resolves.
VDeleteExpired(p) ==
    /\ pc[p] = "vDelExpired"
    /\ sessions' = SessionFindByIdAndDelete(rq[p].cookie)
    /\ HookDone(p, NullResult)
    /\ hist' = [hist EXCEPT !.evicted = @ \cup {rq[p].cookie},
                             !.req[p].returned = NullResult]
    /\ UNCHANGED <<users, now, nextTok>>
    /\ UNCHANGED <<patients, srv>>

\* User.findById resolves; the owner check and the extension decision run.
VFindUser(p) ==
    /\ pc[p] = "vFindUser"
    /\ LET user == UserFindById(rq[p].session.user_id) IN
       IF user = Null
       THEN /\ pc' = [pc EXCEPT ![p] = "vDelOrphan"]
            /\ hist' = [hist EXCEPT !.req[p].orphan = TRUE]
            /\ UNCHANGED rq
       ELSE IF NearExpiry(rq[p].session, now)
            THEN /\ pc' = [pc EXCEPT ![p] = "vUpdate"]
                 /\ rq' = [rq EXCEPT ![p].user = user,
                                     ![p].newExpiresAt = NewExpiresAt(now)]
                 /\ UNCHANGED hist
            ELSE /\ HookDone(p, ValidResult(rq[p].session, user))
                 /\ hist' = [hist EXCEPT !.req[p].returned =
                                ValidResult(rq[p].session, user)]
    /\ UNCHANGED <<users, sessions, now, nextTok>>
    /\ UNCHANGED <<patients, srv>>

\* VDeleteOrphan without the delete: null is returned, the record stays.
VDeleteOrphanSkipped(p) ==
    /\ pc[p] = "vDelOrphan"
    /\ HookDone(p, NullResult)
    /\ hist' = [hist EXCEPT !.req[p].returned = NullResult]
    /\ UNCHANGED <<users, sessions, now, nextTok>>
    /\ UNCHANGED <<patients, srv>>

\* Session.findByIdAndDelete of the ownerless session resolves.
VDeleteOrphan(p) ==
    /\ pc[p] = "vDelOrphan"
    /\ sessions' = SessionFindByIdAndDelete(rq[p].cookie)
    /\ HookDone(p, NullResult)
    /\ hist' = [hist EXCEPT !.req[p].returned = NullResult]
    /\ UNCHANGED <<users, now, nextTok>>
    /\ UNCHANGED <<patients, srv>>

\* VUpdate that writes the extension with session.save() on the document
\* it read, as an insert-or-replace of the whole document.
VUpdateSave(p) ==
    /\ pc[p] = "vUpdate"
    /\ sessions' = [t \in DOMAIN sessions \cup {rq[p].cookie} |->
                       IF t = rq[p].cookie
                       THEN [user_id |-> rq[p].session.user_id,
                             active_expires |-> rq[p].newExpiresAt,
                             idle_expires |-> rq[p].newExpiresAt]
                       ELSE sessions[t]]
    /\ HookDone(p, ValidResult(rq[p].session, rq[p].user))
    /\ hist' = [hist EXCEPT !.req[p].returned =
                   ValidResult(rq[p].session, rq[p].user),
                             !.req[p].wroteAbsent =
                   (rq[p].cookie \notin DOMAIN sessions)]
    /\ UNCHANGED <<users, now, nextTok>>
    /\ UNCHANGED <<patients, srv>>

\* Session.findByIdAndUpdate resolves; validateSession returns the session
\* it read and the user.
VUpdate(p) ==
    /\ pc[p] = "vUpdate"
    /\ sessions' = SessionFindByIdAndUpdate(rq[p].cookie, rq[p].newExpiresAt)
    /\ HookDone(p, ValidResult(rq[p].session, rq[p].user))
    /\ hist' = [hist EXCEPT !.req[p].returned =
                   ValidResult(rq[p].session, rq[p].user),
                             !.req[p].wroteAbsent =
                   (rq[p].cookie \notin DOMAIN sessions)]
    /\ UNCHANGED <<users, now, nextTok>>
    /\ UNCHANGED <<patients, srv>>

\* VStoreError with no catch block in validateSession and none in the hook:
\* the rejection reaches the framework, which replies 500.
VStoreErrorPropagates(p) ==
    /\ pc[p] \in {"vFind", "vDelExpired", "vFindUser", "vDelOrphan", "vUpdate"}
    /\ pc' = [pc EXCEPT ![p] = "idle"]
    /\ rq' = [rq EXCEPT ![p] =
                 FreshRq([status |-> 500, error |-> "Internal Server Error",
                          message |-> "none", user |-> Null, cookie |-> Null])]
    /\ hist' = [hist EXCEPT !.req[p].fault = TRUE, !.req[p].storeOps = 1]
    /\ UNCHANGED <<users, sessions, now, nextTok>>
    /\ UNCHANGED <<patients, srv>>

\* The awaited store operation of validateSession rejects; the catch block
\* returns { session: null, user: null }.
VStoreError(p) ==
    /\ pc[p] \in {"vFind", "vDelExpired", "vFindUser", "vDelOrphan", "vUpdate"}
    /\ HookDone(p, NullResult)
    /\ hist' = [hist EXCEPT !.req[p].fault = TRUE,
                             !.req[p].storeOps = 1,
                             !.req[p].returned = NullResult]
    /\ UNCHANGED <<users, sessions, now, nextTok>>
    /\ UNCHANGED <<patients, srv>>

---------------------------------------------------------------------------
(* routes/auth.ts *)

\* reply.code(status).send(...), with the cookie the reply sets or clears.
Reply(status, error, message, user, cookie) ==
    [status |-> status, error |-> error, message |-> message,
     user |-> user, cookie |-> cookie]

\* reply.clearCookie('session', { path: '/' })
ClearedCookie == [name |-> "session", cleared |-> TRUE, path |-> "/"]

\* if (!email || !password) return reply.code(400)...
MissingFieldsReply ==
    Reply(400, "Validation Error", "Email and password are required", Null, Null)

\* signup: if (existing) return reply.code(409)...
EmailInUseReply == Reply(409, "Conflict", "Email already in use", Null, Null)

\* signup: the catch block
SignupFailedReply ==
    Reply(500, "Internal Server Error", "Failed to create user", Null, Null)

\* NoUserReply telling the caller that the email is unknown.
NoUserReplyLeaky == Reply(404, "Not Found", "User not found", Null, Null)

\* login: if (!user) return reply.code(401)...
NoUserReply == Reply(401, "Unauthorized", "Invalid credentials", Null, Null)

\* login: if (!isValidPassword) return reply.code(401)...
WrongPasswordReply == Reply(401, "Unauthorized", "Invalid credentials", Null, Null)

\* login: the catch block
LoginFailedReply ==
    Reply(500, "Internal Server Error", "Failed to login", Null, Null)

\* logout: the catch block
LogoutFailedReply ==
    Reply(500, "Internal Server Error", "Failed to logout", Null, Null)

\* me: if (!req.user) return reply.code(401)...
NotAuthenticatedReply ==
    Reply(401, "Unauthorized", "Not authenticated", Null, Null)

\* role || 'assistant'
RoleOrDefault(role) == IF role # Empty THEN role ELSE "assistant"

\* randomUUID(): a fresh id; the server never removes a user.
RandomUUID == Cardinality(DOMAIN users) + 1

\* The route handler returns: the reply is sent and the slot is free again.
Finish(p, route, case, reply) ==
    /\ pc' = [pc EXCEPT ![p] = "idle"]
    /\ rq' = [rq EXCEPT ![p] = FreshRq(reply)]
    /\ hist' = [hist EXCEPT !.req[p] =
                   [FreshHist EXCEPT !.route = route,
                                     !.case = case,
                                     !.fault = hist.req[p].fault,
                                     !.afterRevoke = hist.req[p].afterRevoke]]

\* The emails and passwords of request bodies; Empty is a missing field.
BodyEmails == Emails \cup {Empty}
BodyPasswords == Passwords \cup {Empty}

\* The emails and passwords users sign up with; the other email of Emails
\* is never registered.
SignupEmails == {"a@x.com", Empty}
SignupPasswords == {"p1", Empty}

\* The role a sign-up body carries: none, or a string that is no role.
BodyRoles == {Empty, "root"}

\* POST /signup up to the first store operation: the body check, then
\* User.findOne({ email }) resolves.
SignupFind(p, email, password, role) ==
    /\ pc[p] = "handler"
    /\ IF email = Empty \/ password = Empty
       THEN Finish(p, "signup", "none", MissingFieldsReply)
       ELSE IF UserFindOne(email) # Null
            THEN Finish(p, "signup", "none", EmailInUseReply)
            ELSE /\ pc' = [pc EXCEPT ![p] = "suCreate"]
                 /\ rq' = [rq EXCEPT ![p].body =
                             [email |-> email, password |-> password, role |-> role]]
                 /\ hist' = [hist EXCEPT !.req[p].route = "signup"]
    /\ UNCHANGED <<users, sessions, now, nextTok>>
    /\ UNCHANGED <<patients, srv>>

\* argon2.hash and User.create resolve.  The unique index on email rejects
\* a second user with the same email; the catch block replies 500.
SignupCreate(p) ==
    /\ pc[p] = "suCreate"
    /\ IF UserFindOne(rq[p].body.email) # Null
       THEN /\ Finish(p, "signup", "none", SignupFailedReply)
            /\ UNCHANGED users
       ELSE /\ users' = users @@
                   [id \in {RandomUUID} |->
                       [email |-> rq[p].body.email,
                        hashed_password |-> Hash(rq[p].body.password),
                        role |-> RoleOrDefault(rq[p].body.role)]]
            /\ pc' = [pc EXCEPT ![p] = "suSession"]
            /\ rq' = [rq EXCEPT ![p].userId = RandomUUID]
            /\ UNCHANGED hist
    /\ UNCHANGED <<sessions, now, nextTok>>
    /\ UNCHANGED <<patients, srv>>

\* CreateSession that keeps one session per user: the sessions the user
\* already has are removed.
CreateSessionSingle(userId) ==
    /\ nextTok < MaxSessions
    /\ nextTok' = nextTok + 1
    /\ sessions' = SessionDeleteMany(userId) @@
           [t \in {GenerateSessionId} |-> NewSession(userId, now)]

\* auth.createSession(userId): session.save() resolves.
CreateSession(userId) ==
    /\ nextTok < MaxSessions
    /\ nextTok' = nextTok + 1
    /\ sessions' = sessions @@
           [t \in {GenerateSessionId} |-> NewSession(userId, now)]

\* POST /signup: the session is saved, the cookie is set, 201 is sent.
\* secure is process.env.NODE_ENV === 'production'.
SignupSession(p, secure) ==
    /\ pc[p] = "suSession"
    /\ CreateSession(rq[p].userId)
    /\ Finish(p, "signup", "none",
              Reply(201, "none", "User created successfully",
                    [id |-> rq[p].userId,
                     email |-> rq[p].body.email,
                     role |-> RoleOrDefault(rq[p].body.role)],
                    CreateSessionCookie(GenerateSessionId, secure)))
    /\ UNCHANGED <<users, now>>
    /\ UNCHANGED <<patients, srv>>

\* POST /login up to the first store operation: the body check, then
\* User.findOne({ email }) resolves.
LoginFind(p, email, password) ==
    /\ pc[p] = "handler"
    /\ IF email = Empty \/ password = Empty
       THEN Finish(p, "login", "none", MissingFieldsReply)
       ELSE LET user == UserFindOne(email) IN
            IF user = Null
            THEN Finish(p, "login", "no user", NoUserReply)
            ELSE /\ pc' = [pc EXCEPT ![p] = "liVerify"]
                 /\ rq' = [rq EXCEPT ![p].user = user,
                                     ![p].body = [email |-> email,
                                                  password |-> password,
                                                  role |-> Empty]]
                 /\ hist' = [hist EXCEPT !.req[p].route = "login"]
    /\ UNCHANGED <<users, sessions, now, nextTok>>
    /\ UNCHANGED <<patients, srv>>

\* POST /login: argon2.verify settles.  A rejection goes to the catch
\* block; on a match the session is saved, the cookie is set and 200 is
\* sent.
LoginVerify(p, secure) ==
    /\ pc[p] = "liVerify"
    /\ IF VerifyRaises(rq[p].user.hashed_password)
       THEN /\ Finish(p, "login", "verify raised", LoginFailedReply)
            /\ secure = FALSE
            /\ UNCHANGED <<sessions, nextTok>>
       ELSE IF ~Verify(rq[p].user.hashed_password, rq[p].body.password)
       THEN /\ Finish(p, "login", "wrong password", WrongPasswordReply)
            /\ secure = FALSE
            /\ UNCHANGED <<sessions, nextTok>>
       ELSE /\ CreateSession(rq[p].user._id)
            /\ Finish(p, "login", "none",
                      Reply(200, "none", "Logged in successfully",
                            [id |-> rq[p].user._id,
                             email |-> rq[p].user.email,
                             role |-> rq[p].user.role],
                            CreateSessionCookie(GenerateSessionId, secure)))
    /\ UNCHANGED <<users, now>>
    /\ UNCHANGED <<patients, srv>>

\* POST /logout: the resolved session, if any, is deleted; the cookie is
\* cleared and 200 is sent.
Logout(p) ==
    /\ pc[p] = "handler"
    /\ sessions' = IF rq[p].reqSession # Null
                   THEN SessionFindByIdAndDelete(rq[p].reqSession.id)
                   ELSE sessions
    /\ pc' = [pc EXCEPT ![p] = "idle"]
    /\ rq' = [rq EXCEPT ![p] =
                 FreshRq(Reply(200, "none", "Logged out successfully",
                               Null, ClearedCookie))]
    /\ hist' = [hist EXCEPT !.revoked = IF rq[p].reqSession # Null
                                        THEN @ \cup {rq[p].reqSession.id}
                                        ELSE @,
                             !.req[p] = [FreshHist EXCEPT
                                            !.route = "logout",
                                            !.fault = hist.req[p].fault,
                                            !.afterRevoke =
                                                hist.req[p].afterRevoke]]
    /\ UNCHANGED <<users, now, nextTok>>
    /\ UNCHANGED <<patients, srv>>

\* Me that looks at the cookie, as requireSession does, and not at the
\* resolved user.
MeByCookie(p) ==
    /\ pc[p] = "handler"
    /\ IF rq[p].cookie = EmptyToken
       THEN Finish(p, "me", "none", NotAuthenticatedReply)
       ELSE Finish(p, "me", "none", Reply(200, "none", "none", rq[p].reqUser, Null))
    /\ UNCHANGED <<users, sessions, now, nextTok>>
    /\ UNCHANGED <<patients, srv>>

\* GET /me
Me(p) ==
    /\ pc[p] = "handler"
    /\ IF rq[p].reqUser = Null
       THEN Finish(p, "me", "none", NotAuthenticatedReply)
       ELSE Finish(p, "me", "none", Reply(200, "none", "none", rq[p].reqUser, Null))
    /\ UNCHANGED <<users, sessions, now, nextTok>>
    /\ UNCHANGED <<patients, srv>>

---------------------------------------------------------------------------
(* Rejected store operations in the routes: the catch blocks *)

\* POST /signup: User.findOne, argon2.hash, User.create or session.save
\* rejects.
SignupError(p) ==
    /\ pc[p] \in {"handler", "suCreate", "suSession"}
    /\ Finish(p, "signup", "none", SignupFailedReply)
    /\ UNCHANGED <<users, sessions, now, nextTok>>
    /\ UNCHANGED <<patients, srv>>

\* POST /login: User.findOne, argon2.verify or session.save rejects.
LoginError(p) ==
    /\ pc[p] \in {"handler", "liVerify"}
    /\ Finish(p, "login", "none", LoginFailedReply)
    /\ UNCHANGED <<users, sessions, now, nextTok>>
    /\ UNCHANGED <<patients, srv>>

\* POST /logout: Session.findByIdAndDelete rejects, before clearCookie.
LogoutError(p) ==
    /\ pc[p] = "handler"
    /\ rq[p].reqSession # Null
    /\ Finish(p, "logout", "none", LogoutFailedReply)
    /\ UNCHANGED <<users, sessions, now, nextTok>>
    /\ UNCHANGED <<patients, srv>>

---------------------------------------------------------------------------
(* middleware/requireAuth.ts: the authorization gate *)

\* if (!request.user) return reply.code(401)...
AuthRequiredReply ==
    Reply(401, "Unauthorized", "Authentication required", Null, Null)

\* if (roles && roles.length > 0 && !roles.includes(...)) return reply.code(403)...
ForbiddenReply ==
    Reply(403, "Forbidden", "Insufficient permissions", Null, Null)

\* The argument a route may pass to requireAuth: nothing (roles is
\* undefined), or a list of roles, the empty one included.
GateRoles ==
    {[given |-> FALSE, list |-> {}]}
        \cup {[given |-> TRUE, list |-> list] : list \in SUBSET Roles}

\* RequireAuth without the test roles.length > 0.
RequireAuthNoLengthTest(user, roles) ==
    IF user = Null THEN AuthRequiredReply
    ELSE IF roles.given /\ user.role \notin roles.list
         THEN ForbiddenReply
         ELSE Null

\* requireAuth(roles)(request, reply): the reply the gate sends, or Null
\* when it returns without sending one and the route handler may run.
RequireAuth(user, roles) ==
    IF user = Null THEN AuthRequiredReply
    ELSE IF roles.given /\ Cardinality(roles.list) > 0
               /\ user.role \notin roles.list
         THEN ForbiddenReply
         ELSE Null

\* if (!request.cookies.session) return reply.code(401)...
SessionRequiredReply ==
    Reply(401, "Unauthorized", "Session required", Null, Null)

\* requireSession()(request, reply): the reply the gate sends, or Null when
\* it returns without sending one and the route handler may run.
RequireSession(cookie) ==
    IF cookie = EmptyToken THEN SessionRequiredReply ELSE Null

\* A request reaches a route guarded by requireSession() after the hook.
\* No route of the server is registered behind the gate, so the request
\* ends where the gate returns.
RequireSessionGate(p) ==
    /\ pc[p] = "handler"
    /\ LET sent == RequireSession(rq[p].cookie) IN
       Finish(p, "requireSession",
              IF sent = Null THEN "allowed" ELSE "rejected", sent)
    /\ UNCHANGED <<users, sessions, now, nextTok>>
    /\ UNCHANGED <<patients, srv>>

\* A request reaches a route guarded by requireAuth(roles) after the hook.
\* No route of the server is registered behind the gate, so the request
\* ends where the gate returns.
RequireAuthGate(p, roles) ==
    /\ pc[p] = "handler"
    /\ LET sent == RequireAuth(rq[p].reqUser, roles) IN
       Finish(p, "requireAuth",
              IF sent = Null THEN "allowed" ELSE "rejected", sent)
    /\ UNCHANGED <<users, sessions, now, nextTok>>
    /\ UNCHANGED <<patients, srv>>

---------------------------------------------------------------------------
(* AuthService called directly: invalidateSession, invalidateAllUserSessions *)

\* What a caller of the session service has seen of its last call: the
\* method, the argument, whether the promise was rejected, the ids of the
\* records it removed, and whether the call before it was the same call.
Call(op, arg, threw, removed) ==
    [op |-> op, arg |-> arg, threw |-> threw, removed |-> removed,
     again |-> (hist.call # Null /\ hist.call.op = op /\ hist.call.arg = arg)]

\* InvalidateSession with Session.findByIdAndDelete(...).orFail(): the
\* promise is rejected when no record has the id.
InvalidateSessionOrFail(sessionId) ==
    /\ sessions' = SessionFindByIdAndDelete(sessionId)
    /\ hist' = [hist EXCEPT !.revoked = @ \cup {sessionId},
                             !.call = Call("invalidateSession", sessionId,
                                          sessionId \notin DOMAIN sessions,
                                          {sessionId} \cap DOMAIN sessions)]
    /\ UNCHANGED <<users, now, nextTok, pc, rq>>
    /\ UNCHANGED <<patients, srv>>

\* await Session.findByIdAndDelete(sessionId): resolves whether or not a
\* record has the id.
InvalidateSession(sessionId) ==
    /\ sessions' = SessionFindByIdAndDelete(sessionId)
    /\ hist' = [hist EXCEPT !.revoked = @ \cup {sessionId},
                             !.call = Call("invalidateSession", sessionId, FALSE,
                                          {sessionId} \cap DOMAIN sessions)]
    /\ UNCHANGED <<users, now, nextTok, pc, rq>>
    /\ UNCHANGED <<patients, srv>>

\* await Session.deleteMany({ user_id: userId })
InvalidateAllUserSessions(userId) ==
    /\ sessions' = SessionDeleteMany(userId)
    /\ hist' = [hist EXCEPT !.revoked = @ \cup (DOMAIN sessions \ DOMAIN sessions'),
                             !.call = Call("invalidateAllUserSessions", userId, FALSE,
                                          DOMAIN sessions \ DOMAIN sessions')]
    /\ UNCHANGED <<users, now, nextTok, pc, rq>>
    /\ UNCHANGED <<patients, srv>>

---------------------------------------------------------------------------
(* api/index.ts: the serverless entry point *)

\* The invocations of handler one process may be running at once.
Invocations == {"i1", "i2"}

\* The awaits of setupApp, in the order of the code: the six
\* app.register calls, then app.ready().
SetupSteps ==
    <<"cors", "rateLimiting", "cookies", "auth", "authRoutes", "routes",
      "ready">>

\* The module state of a process that has handled no invocation yet:
\* isConnected and appInitialized as declared, nothing registered on app,
\* no invocation running.  inv holds the position of each invocation of
\* handler and the status of the reply the handler itself has sent (500, or
\* 0 for none); setupCalls, completed, setupFailed and dispatched record what
\* has happened and are read by no decision of the handler.
ColdStart ==
    [isConnected |-> FALSE,
     appInitialized |-> FALSE,
     registered |-> [k \in 1..Len(SetupSteps) |-> 0],
     inv |-> [i \in Invocations |-> [at |-> "idle", step |-> 0, status |-> 0]],
     setupCalls |-> 0,
     completed |-> 0,
     setupFailed |-> FALSE,
     dispatched |-> 0]

\* The frame of the entry point: it touches nothing but its module state.
ServerlessFrame ==
    UNCHANGED <<users, sessions, now, nextTok, pc, rq, hist, patients>>

\* handler(req, res) is invoked and awaits connectToDatabase().
Invoke(i) ==
    /\ srv.inv[i].at = "idle"
    /\ srv' = [srv EXCEPT !.inv[i] = [at |-> "connect", step |-> 0,
                                      status |-> 0]]
    /\ ServerlessFrame

\* connectToDatabase returns (mongoose.connect has resolved, or isConnected
\* was set), and the handler tests appInitialized: it calls setupApp, which
\* awaits its first app.register, or goes on to await app.ready().
Connected(i) ==
    /\ srv.inv[i].at = "connect"
    /\ IF ~srv.appInitialized
       THEN /\ srv.setupCalls < MaxSetups
            /\ srv' = [srv EXCEPT !.isConnected = TRUE,
                                  !.inv[i].at = "setup",
                                  !.inv[i].step = 1,
                                  !.setupCalls = @ + 1]
       ELSE srv' = [srv EXCEPT !.isConnected = TRUE,
                               !.inv[i].at = "ready"]
    /\ ServerlessFrame

\* mongoose.connect rejects: connectToDatabase rethrows, the handler
\* replies 500.
ConnectFailed(i) ==
    /\ srv.inv[i].at = "connect"
    /\ ~srv.isConnected
    /\ srv' = [srv EXCEPT !.inv[i] = [at |-> "idle", step |-> 0, status |-> 500]]
    /\ ServerlessFrame

\* The plugin of a setup step decorates the instance (plugins/auth.ts:
\* app.decorate('auth', auth)); the framework rejects a decorator that is
\* already present.
Decorates(step) == SetupSteps[step] = "auth"

\* An await of setupApp resolves: the plugin is registered on app and
\* setupApp goes on to its next await; after app.ready() it returns, the
\* handler sets appInitialized and awaits app.ready().  A plugin that
\* decorates an instance already decorated rejects instead: setupApp
\* rethrows and the handler replies 500.
SetupStep(i) ==
    /\ srv.inv[i].at = "setup"
    /\ LET step == srv.inv[i].step IN
       IF Decorates(step) /\ srv.registered[step] > 0
       THEN srv' = [srv EXCEPT !.inv[i] = [at |-> "idle", step |-> 0,
                                           status |-> 500],
                               !.setupFailed = TRUE]
       ELSE IF step < Len(SetupSteps)
       THEN srv' = [srv EXCEPT !.registered[step] = @ + 1,
                               !.inv[i].step = step + 1]
       ELSE srv' = [srv EXCEPT !.registered[step] = @ + 1,
                               !.appInitialized = TRUE,
                               !.completed = @ + 1,
                               !.inv[i].at = "ready",
                               !.inv[i].step = 0]
    /\ ServerlessFrame

\* An await of setupApp rejects: setupApp rethrows, the handler replies 500;
\* appInitialized is left as it is.
SetupStepFailed(i) ==
    /\ srv.inv[i].at = "setup"
    /\ srv' = [srv EXCEPT !.inv[i] = [at |-> "idle", step |-> 0,
                                      status |-> 500],
                          !.setupFailed = TRUE]
    /\ ServerlessFrame

\* await app.ready() of the handler resolves and the request is dispatched:
\* app.server.emit('request', req, res).
Dispatch(i) ==
    /\ srv.inv[i].at = "ready"
    /\ srv' = [srv EXCEPT !.inv[i] = [at |-> "idle", step |-> 0, status |-> 0],
                          !.dispatched = IF @ < MaxSetups THEN @ + 1 ELSE @]
    /\ ServerlessFrame

---------------------------------------------------------------------------
(* models/Patient.ts: names and notes *)

\* The characters of the names of the model: an ASCII lower-case letter,
\* its upper case, a letter outside ASCII, and the space.
Chars == {"a", "A", "i-acute", " "}

\* \w of a JavaScript regular expression without the u flag: ASCII only.
IsWordChar(c) == c \in {"a", "A"}

\* String.prototype.toUpperCase on one character.
ToUpperCase(c) ==
    IF c = "a" THEN "A" ELSE IF c = "i-acute" THEN "I-acute" ELSE c

RECURSIVE TrimStart(_)
TrimStart(s) ==
    IF s # <<>> /\ Head(s) = " " THEN TrimStart(Tail(s)) ELSE s

RECURSIVE TrimEnd(_)
TrimEnd(s) ==
    IF s # <<>> /\ s[Len(s)] = " "
    THEN TrimEnd(SubSeq(s, 1, Len(s) - 1))
    ELSE s

\* String.prototype.trim, and the trim setter of the schema.
Trim(s) == TrimEnd(TrimStart(s))

\* s.replace(/\b\w/g, l => l.toUpperCase()): a word character that follows
\* no word character is upper-cased.
Capitalize(s) ==
    [i \in 1..Len(s) |->
        IF IsWordChar(s[i]) /\ (i = 1 \/ ~IsWordChar(s[i - 1]))
        THEN ToUpperCase(s[i])
        ELSE s[i]]

\* pre('save'): if (this.firstName) this.firstName = trim, then capitalize.
PreSaveName(s) == IF s # <<>> THEN Capitalize(Trim(s)) ELSE s

\* PATIENT_VALIDATION.firstName / lastName: minLength and maxLength
MinNameLength == 2
MaxNameLength == 50

\* The validators of firstName and lastName: required, minlength,
\* maxlength; every character of the model matches the pattern.
NameValid(s) == s # <<>> /\ Len(s) >= MinNameLength /\ Len(s) <= MaxNameLength

\* notes.length <= 50
MaxNotes == 50

\* The validator of the notes array.
NotesValid(notes) == Len(notes) <= MaxNotes

\* A note: the generated _id, and the title and the content of the body.
Note(id) == [_id |-> id, title |-> "t", content |-> "c"]

\* The _id of a new embedded note: an id no note of the array has.
NextNoteId(notes) ==
    IF notes = <<>> THEN 1
    ELSE 1 + (CHOOSE m \in {notes[i]._id : i \in 1..Len(notes)} :
                 \A i \in 1..Len(notes) : notes[i]._id <= m)

\* document.save(): the validators run on the document, then pre('save');
\* the result is the document as stored, or Null for a ValidationError.
PatientSave(doc) ==
    IF NameValid(doc.firstName) /\ NameValid(doc.lastName)
          /\ NotesValid(doc.notes)
    THEN [doc EXCEPT !.firstName = PreSaveName(@),
                     !.lastName = PreSaveName(@)]
    ELSE Null

---------------------------------------------------------------------------
(* routes of the patients *)

\* The ids of the patients of the model: the store holds one patient at a
\* time.
PatientIds == {1}

\* An id no stored patient has.
UnknownPatient == 0

\* The names of request bodies: every string of up to MaxNameLen characters,
\* the empty one (a missing field) included.
Names == UNION {[1..n -> Chars] : n \in 0..MaxNameLen}

\* The last names of request bodies.
LastNames == {<<"a", "a">>, <<"A", "a">>}

\* The lengths of the notes arrays of request bodies.
NoteCounts == {0, MaxNotes - 1, MaxNotes, MaxNotes + 1}

\* A notes array of a request body, with the ids the store gives the notes.
NotesOfLength(count) == [i \in 1..count |-> Note(i)]

\* The validation-error replies of POST /patients and PUT /patients/:id.
InvalidPatientReply ==
    Reply(400, "Validation Error", "Invalid patient data", Null, Null)

PatientNotFoundReply == Reply(404, "Not Found", "Patient not found", Null, Null)

\* The reply that carries the patient document.
PatientReply(status) == Reply(status, "none", "patient", Null, Null)

\* POST /patients: new Patient(body) applies the trim setters; save()
\* validates, runs pre('save') and inserts.
CreatePatient(p, firstName, lastName, count) ==
    /\ pc[p] = "handler"
    /\ PatientIds \ DOMAIN patients # {}
    /\ LET id == CHOOSE i \in PatientIds : i \notin DOMAIN patients
           saved == PatientSave([firstName |-> Trim(firstName),
                                 lastName |-> Trim(lastName),
                                 notes |-> NotesOfLength(count)])
       IN IF saved = Null
          THEN /\ Finish(p, "patients.create", "rejected", InvalidPatientReply)
               /\ UNCHANGED patients
          ELSE /\ patients' = patients @@ [i \in {id} |-> saved]
               /\ Finish(p, "patients.create", "done", PatientReply(201))
    /\ UNCHANGED <<users, sessions, now, nextTok, srv>>

\* The bodies of PUT /patients/:id: a new first name, a new last name, a
\* new notes array, or an update operator that appends one note.
UpdateBodies ==
    {[op |-> "firstName", name |-> name, count |-> 0] : name \in Names}
        \cup {[op |-> "lastName", name |-> name, count |-> 0] :
                  name \in LastNames}
        \cup {[op |-> "notes", name |-> <<>>, count |-> count] :
                  count \in NoteCounts}
        \cup {[op |-> "$push notes", name |-> <<>>, count |-> 1]}

\* The update validators of findByIdAndUpdate(..., { runValidators: true }):
\* they run on the values the update sets; for $push they run on the
\* pushed element and not on the array.
UpdateValid(body) ==
    CASE body.op \in {"firstName", "lastName"} -> NameValid(Trim(body.name))
      [] body.op = "notes" -> NotesValid(NotesOfLength(body.count))
      [] OTHER -> TRUE

\* The document findByIdAndUpdate leaves in the store: the trim setters run
\* on the values of the update, pre('save') does not.
Updated(doc, body) ==
    CASE body.op = "firstName" -> [doc EXCEPT !.firstName = Trim(body.name)]
      [] body.op = "lastName" -> [doc EXCEPT !.lastName = Trim(body.name)]
      [] body.op = "notes" -> [doc EXCEPT !.notes = NotesOfLength(body.count)]
      [] OTHER -> [doc EXCEPT !.notes = Append(@, Note(NextNoteId(@)))]

\* PUT /patients/:id.  The model stops appending with the update operator
\* once a patient has more than MaxNotes notes.
UpdatePatient(p, id, body) ==
    /\ pc[p] = "handler"
    /\ (body.op = "$push notes" /\ id \in DOMAIN patients)
          => Len(patients[id].notes) <= MaxNotes
    /\ IF ~UpdateValid(body)
       THEN /\ Finish(p, "patients.update", "rejected", InvalidPatientReply)
            /\ UNCHANGED patients
       ELSE IF id \notin DOMAIN patients
       THEN /\ Finish(p, "patients.update", "not found", PatientNotFoundReply)
            /\ UNCHANGED patients
       ELSE /\ patients' = [patients EXCEPT ![id] = Updated(@, body)]
            /\ Finish(p, "patients.update", "done", PatientReply(200))
    /\ UNCHANGED <<users, sessions, now, nextTok, srv>>

\* DELETE /patients/:id
DeletePatient(p, id) ==
    /\ pc[p] = "handler"
    /\ IF id \notin DOMAIN patients
       THEN /\ Finish(p, "patients.delete", "not found", PatientNotFoundReply)
            /\ UNCHANGED patients
       ELSE /\ patients' = [i \in DOMAIN patients \ {id} |-> patients[i]]
            /\ Finish(p, "patients.delete", "done",
                      Reply(200, "none", "Patient deleted successfully",
                            Null, Null))
    /\ UNCHANGED <<users, sessions, now, nextTok, srv>>

\* POST /patients/:id/notes: findById, notes.push, save(); a ValidationError
\* of save() goes to the catch block, which replies 500.
AddNote(p, id, complete) ==
    /\ pc[p] = "handler"
    /\ IF ~complete
       THEN /\ Finish(p, "patients.addNote", "rejected",
                      Reply(400, "Validation Error",
                            "Title and content are required", Null, Null))
            /\ UNCHANGED patients
       ELSE IF id \notin DOMAIN patients
       THEN /\ Finish(p, "patients.addNote", "not found", PatientNotFoundReply)
            /\ UNCHANGED patients
       ELSE LET saved == PatientSave(
                    [patients[id] EXCEPT
                        !.notes = Append(@, Note(NextNoteId(@)))])
            IN IF saved = Null
               THEN /\ Finish(p, "patients.addNote", "rejected",
                              Reply(500, "Internal Server Error",
                                    "Failed to add note", Null, Null))
                    /\ UNCHANGED patients
               ELSE /\ patients' = [patients EXCEPT ![id] = saved]
                    /\ Finish(p, "patients.addNote", "done", PatientReply(200))
    /\ UNCHANGED <<users, sessions, now, nextTok, srv>>

\* The note ids of DELETE /patients/:id/notes/:noteId: the id of the last
\* note of the patient, or an id no note has.
UnknownNote == 0

NoteIdsOf(id) ==
    {UnknownNote} \cup
        (IF id \in DOMAIN patients /\ patients[id].notes # <<>>
         THEN {patients[id].notes[Len(patients[id].notes)]._id}
         ELSE {})

\* patient.notes.filter(note => note._id?.toString() !== noteId)
WithoutNote(notes, noteId) == SelectSeq(notes, LAMBDA note : note._id # noteId)

\* DELETE /patients/:id/notes/:noteId: findById, filter, save().
DeleteNote(p, id, noteId) ==
    /\ pc[p] = "handler"
    /\ IF id \notin DOMAIN patients
       THEN /\ Finish(p, "patients.deleteNote", "not found", PatientNotFoundReply)
            /\ UNCHANGED patients
       ELSE IF Len(WithoutNote(patients[id].notes, noteId))
                  = Len(patients[id].notes)
       THEN /\ Finish(p, "patients.deleteNote", "not found",
                      Reply(404, "Not Found", "Note not found", Null, Null))
            /\ UNCHANGED patients
       ELSE LET saved == PatientSave(
                    [patients[id] EXCEPT !.notes = WithoutNote(@, noteId)])
            IN IF saved = Null
               THEN /\ Finish(p, "patients.deleteNote", "rejected",
                              Reply(500, "Internal Server Error",
                                    "Failed to delete note", Null, Null))
                    /\ UNCHANGED patients
               ELSE /\ patients' = [patients EXCEPT ![id] = saved]
                    /\ Finish(p, "patients.deleteNote", "done",
                              PatientReply(200))
    /\ UNCHANGED <<users, sessions, now, nextTok, srv>>

---------------------------------------------------------------------------
(* Specifications *)

\* The identity-resolution hook of a request, for any cookie.
Hook ==
    \/ \E p \in Procs, c \in IncomingCookies : PreHandler(p, c)
    \/ \E p \in Procs : VFindSession(p)
    \/ \E p \in Procs : VDeleteExpired(p)
    \/ \E p \in Procs : VFindUser(p)
    \/ \E p \in Procs : VDeleteOrphan(p)
    \/ \E p \in Procs : VUpdate(p)

\* The store a server finds at start after one sign-up at time 0: the user
\* and its session, or the session of an account removed since.
InitStore ==
    /\ users = [id \in {1} |->
                  [email |-> "a@x.com",
                   hashed_password |-> Hash("p1"),
                   role |-> "assistant"]]
    /\ sessions \in {[t \in {1} |-> NewSession(owner, 0)] :
                        owner \in {1, GhostUser}}
    /\ nextTok = 1

InitRequests ==
    /\ now = 0
    /\ pc = [p \in Procs |-> "idle"]
    /\ rq = [p \in Procs |-> FreshRq(Null)]
    /\ hist = [evicted |-> {}, revoked |-> {}, call |-> Null,
               req |-> [p \in Procs |-> FreshHist]]
    /\ patients = <<>>
    /\ srv = ColdStart

Init == InitStore /\ InitRequests

Next ==
    \/ Tick
    \/ Hook
    \/ \E p \in Procs : Logout(p)
    \/ \E p \in Procs : Me(p)

\* Sessions over time: concurrent requests that present a session cookie,
\* on a store that answers every operation.
Spec == Init /\ [][Next]_vars

NextFault ==
    \/ Next
    \/ \E p \in Procs : VStoreError(p)
    \/ \E p \in Procs : LogoutError(p)

\* The same, on a store that may reject any operation.
FaultSpec == Init /\ [][NextFault]_vars

\* An empty store.
InitEmpty ==
    /\ users = <<>>
    /\ sessions = <<>>
    /\ nextTok = 0
    /\ InitRequests

NextRoutes ==
    \/ \E p \in Procs, c \in IncomingCookies : PreHandler(p, c)
    \/ \E p \in Procs : VFindSession(p)
    \/ \E p \in Procs : VFindUser(p)
    \/ \E p \in Procs, email \in SignupEmails, password \in SignupPasswords,
          role \in BodyRoles : SignupFind(p, email, password, role)
    \/ \E p \in Procs : SignupCreate(p)
    \/ \E p \in Procs, secure \in BOOLEAN : SignupSession(p, secure)
    \/ \E p \in Procs, email \in BodyEmails, password \in BodyPasswords :
          LoginFind(p, email, password)
    \/ \E p \in Procs, secure \in BOOLEAN : LoginVerify(p, secure)
    \/ \E p \in Procs : Logout(p)
    \/ \E p \in Procs : Me(p)

\* The auth routes from an empty store: concurrent sign-ups, logins,
\* logouts and identity requests, with no time passing.
RouteSpec == InitEmpty /\ [][NextRoutes]_vars

\* The user ids a caller passes: those of the stored users and the id of an
\* account that is not in the store.
UserIds == DOMAIN users \cup {GhostUser}

\* The store after two sign-ups and some logins and logouts at time 0: two
\* users with different roles, and for each session id issued so far either
\* no record or the record of a session of one of the two.
InitService ==
    /\ users = [id \in {1, 2} |->
                  [email |-> IF id = 1 THEN "a@x.com" ELSE "b@x.com",
                   hashed_password |-> Hash("p1"),
                   role |-> IF id = 1 THEN "assistant" ELSE "admin"]]
    /\ \E owner \in UNION {[T -> {1, 2}] : T \in SUBSET (1..MaxSessions)} :
          sessions = [t \in DOMAIN owner |-> NewSession(owner[t], 0)]
    /\ nextTok = MaxSessions
    /\ InitRequests

NextService ==
    \/ \E sessionId \in IncomingCookies : InvalidateSession(sessionId)
    \/ \E userId \in UserIds : InvalidateAllUserSessions(userId)

\* The session service called directly, on a store of several users and
\* sessions, with no time passing.
ServiceSpec == InitService /\ [][NextService]_vars

NextGate ==
    \/ \E p \in Procs, c \in IncomingCookies : PreHandler(p, c)
    \/ \E p \in Procs : VFindSession(p)
    \/ \E p \in Procs : VFindUser(p)
    \/ \E p \in Procs, roles \in GateRoles : RequireAuthGate(p, roles)

\* Requests to routes guarded by the authorization gate, on a store of
\* several users and sessions, with no time passing.
GateSpec == InitService /\ [][NextGate]_vars

\* A store with two accounts and no session: one account with the hash of
\* its password, one whose stored hash is not a PHC string.
InitLogin ==
    /\ users = [id \in {1, 2} |->
                  [email |-> IF id = 1 THEN "a@x.com" ELSE "b@x.com",
                   hashed_password |-> IF id = 1 THEN Hash("p1")
                                       ELSE MalformedHash,
                   role |-> IF id = 1 THEN "assistant" ELSE "admin"]]
    /\ sessions = <<>>
    /\ nextTok = 0
    /\ InitRequests

\* The passwords the clients of LoginSpec send: the password of the first
\* account.
LoginPasswords == {"p1"}

NextLogin ==
    \/ Tick
    \/ \E p \in Procs : PreHandler(p, EmptyToken)
    \/ \E p \in Procs, email \in Emails, password \in LoginPasswords :
          LoginFind(p, email, password)
    \/ \E p \in Procs, secure \in BOOLEAN : LoginVerify(p, secure)

\* Logins over time: concurrent logins, from clients that hold no session
\* cookie yet, on a store of two accounts.
LoginSpec == InitLogin /\ [][NextLogin]_vars

NextServerless ==
    \/ \E i \in Invocations : Invoke(i)
    \/ \E i \in Invocations : Connected(i)
    \/ \E i \in Invocations : ConnectFailed(i)
    \/ \E i \in Invocations : SetupStep(i)
    \/ \E i \in Invocations : SetupStepFailed(i)
    \/ \E i \in Invocations : Dispatch(i)

\* The serverless entry point of a cold process: concurrent invocations of
\* handler, with a database connection and a setup that may fail.
ServerlessSpec == InitEmpty /\ [][NextServerless]_vars

NextSessionGate ==
    \/ \E p \in Procs, c \in IncomingCookies : PreHandler(p, c)
    \/ \E p \in Procs : VFindSession(p)
    \/ \E p \in Procs : VFindUser(p)
    \/ \E p \in Procs : RequireSessionGate(p)

\* Requests to routes guarded by the session gate, on a store of several
\* users and sessions, with no time passing.
SessionGateSpec == InitService /\ [][NextSessionGate]_vars

NextSignupFault ==
    \/ \E p \in Procs : PreHandler(p, EmptyToken)
    \/ \E p \in Procs, email \in SignupEmails, password \in SignupPasswords,
          role \in BodyRoles : SignupFind(p, email, password, role)
    \/ \E p \in Procs : SignupCreate(p)
    \/ \E p \in Procs, secure \in BOOLEAN : SignupSession(p, secure)
    \/ \E p \in Procs : SignupError(p)

\* Concurrent sign-ups from an empty store, on a store that may reject any
\* operation of the route.
SignupFaultSpec == InitEmpty /\ [][NextSignupFault]_vars

\* The request slot of the patient routes: one request at a time.
PatientProcs == {"r1"}

NextPatients ==
    \/ \E p \in PatientProcs : PreHandler(p, EmptyToken)
    \/ \E p \in PatientProcs, firstName \in Names, lastName \in LastNames,
          count \in NoteCounts : CreatePatient(p, firstName, lastName, count)
    \/ \E p \in PatientProcs, id \in PatientIds \cup {UnknownPatient},
          body \in UpdateBodies : UpdatePatient(p, id, body)
    \/ \E p \in PatientProcs, id \in PatientIds \cup {UnknownPatient} :
          DeletePatient(p, id)
    \/ \E p \in PatientProcs, id \in PatientIds \cup {UnknownPatient},
          complete \in BOOLEAN : AddNote(p, id, complete)
    \/ \E p \in PatientProcs, id \in PatientIds \cup {UnknownPatient} :
          \E noteId \in NoteIdsOf(id) : DeleteNote(p, id, noteId)

\* The patient routes from an empty store: sequences of create, update,
\* delete, add-note and delete-note requests.
PatientSpec == InitEmpty /\ [][NextPatients]_vars

---------------------------------------------------------------------------
(* Properties *)

\* The parts of a request between its arrival and its route handler.
HookStates == {"vFind", "vDelExpired", "vFindUser", "vDelOrphan", "vUpdate"}

\* Request slot p has sent the reply of a request handled by route.
Replied(p, route) ==
    pc[p] = "idle" /\ rq[p].reply # Null /\ hist.req[p].route = route

\* C1: a sign-up with an email and a password whose email is not registered
\* goes on to create the user, and once the user is created it replies 201
\* and sets the session cookie; validateSession on the cookie's value, run
\* at once, returns a session and the user just created (same id, email and
\* role, the user of the reply).
C1_SignupStep(p) ==
    /\ \A email \in SignupEmails \ {Empty},
          password \in SignupPasswords \ {Empty}, role \in BodyRoles :
          (SignupFind(p, email, password, role) /\ UserFindOne(email) = Null)
              => pc'[p] = "suCreate"
    /\ (pc[p] = "suCreate" /\ pc'[p] # "suCreate"
          /\ UserFindOne(rq[p].body.email) = Null)
          => /\ pc'[p] = "suSession"
             /\ UserFindOne(rq[p].body.email)' # Null
    /\ (pc[p] = "suSession" /\ pc'[p] # "suSession")
          => /\ rq'[p].reply.status = 201
             /\ rq'[p].reply.cookie # Null
             /\ rq'[p].reply.cookie.name = "session"
             /\ LET result == ValidateNow(rq[p].reply.cookie.value)' IN
                /\ result.session # Null
                /\ result.session.id = rq'[p].reply.cookie.value
                /\ result.user = [id |-> rq[p].userId,
                                  email |-> rq[p].body.email,
                                  role |-> RoleOrDefault(rq[p].body.role)]
                /\ result.user = rq'[p].reply.user
                /\ result.user.id \in DOMAIN users'
                /\ users'[result.user.id].email = rq[p].body.email
                /\ users'[result.user.id].role = result.user.role

\* C1, on every step of every request: sign-up with a fresh email replies
\* 201 with a cookie that validateSession resolves to the new user.
C1_SignupThenValidate == [][\A p \in Procs : C1_SignupStep(p)]_vars

C1_Witness ==
    \E p \in Procs :
        /\ Replied(p, "signup")
        /\ rq[p].reply.status = 201
        /\ ValidateNow(rq[p].reply.cookie.value).user = rq[p].reply.user

\* C2: a login rejected for a wrong password and a login rejected for an
\* unknown email get the same reply, with status 401 and no cookie, and
\* neither creates a session.
C2_SameReply ==
    \A p \in Procs :
        (pc[p] = "idle" /\ hist.req[p].case \in {"no user", "wrong password"})
            => /\ rq[p].reply.status = 401
               /\ rq[p].reply.cookie = Null
               /\ \A q \in Procs :
                    (pc[q] = "idle"
                        /\ hist.req[q].case \in {"no user", "wrong password"})
                        => rq[q].reply = rq[p].reply

C2_NoSessionStep ==
    \A p \in Procs :
        (pc[p] # "idle" /\ pc'[p] = "idle" /\ hist'.req[p].case # "none")
            => sessions' = sessions /\ nextTok' = nextTok

\* C2: the two login rejections are the same reply in every state, and no
\* rejecting step creates a session.
C2_LoginRejectionsAlike == []C2_SameReply /\ [][C2_NoSessionStep]_vars

C2_Witness ==
    \E p, q \in Procs :
        /\ pc[p] = "idle" /\ hist.req[p].case = "no user"
        /\ pc[q] = "idle" /\ hist.req[q].case = "wrong password"

\* C3: validateSession on a valid session with more than half of the
\* lifetime left returns without writing to the store; with less than half
\* left it writes newExpiresAt = now + SESSION_DURATION before it returns,
\* which is later than the expiry it read, so a record still as it was read
\* gets a strictly later expiry.
C3_ExtensionStep(p) ==
    /\ (pc[p] = "vFindUser" /\ pc'[p] # "vFindUser"
          /\ UserFindById(rq[p].session.user_id) # Null)
          => LET left == rq[p].session.active_expires - now IN
             /\ 2 * left > SESSION_DURATION
                  => /\ pc'[p] = "handler"
                     /\ rq'[p].reqSession # Null
                     /\ sessions' = sessions
             /\ 2 * left < SESSION_DURATION
                  => /\ pc'[p] = "vUpdate"
                     /\ rq'[p].newExpiresAt = now + SESSION_DURATION
                     /\ sessions' = sessions
    /\ (pc[p] = "vUpdate" /\ pc'[p] # "vUpdate")
          => /\ pc'[p] = "handler"
             /\ rq'[p].reqSession # Null
             /\ rq[p].newExpiresAt > rq[p].session.active_expires
             /\ rq[p].cookie \in DOMAIN sessions
                  => /\ sessions'[rq[p].cookie].active_expires
                            = rq[p].newExpiresAt
                     /\ sessions[rq[p].cookie].active_expires
                            = rq[p].session.active_expires
                          => sessions'[rq[p].cookie].active_expires
                                > sessions[rq[p].cookie].active_expires

\* C3, on every step of every call: no write with more than half of the
\* lifetime left, a strictly later expiry written with less than half left.
C3_SlidingExpiry == [][\A p \in Procs : C3_ExtensionStep(p)]_vars

\* A call has returned a session whose stored expiry is now later than the
\* expiry the call read.
C3_Witness ==
    \E p \in Procs :
        /\ pc[p] = "handler"
        /\ rq[p].reqSession # Null
        /\ rq[p].cookie \in DOMAIN sessions
        /\ sessions[rq[p].cookie].active_expires > rq[p].reqSession.expiresAt
        /\ sessions[rq[p].cookie].active_expires = now + SESSION_DURATION

\* C4: validateSession on a session whose expiry has passed returns
\* { null, null } and the record is not in the store when it returns; every
\* validateSession that begins later with the same id returns { null, null }.
C4_ExpiredIsEvicted ==
    /\ \A id \in hist.evicted : id \notin DOMAIN sessions
    /\ \A p \in Procs :
        (pc[p] = "handler" /\ (hist.req[p].expired \/ hist.req[p].late))
            => /\ rq[p].reqSession = Null
               /\ rq[p].reqUser = Null
               /\ hist.req[p].returned = NullResult
               /\ rq[p].cookie \notin DOMAIN sessions

\* One call has evicted the session and a call that began later, with the
\* same cookie, has returned.
C4_Witness ==
    \E p, q \in Procs :
        /\ pc[p] = "handler" /\ hist.req[p].expired
        /\ pc[q] = "handler" /\ hist.req[q].late
        /\ rq[q].cookie = rq[p].cookie

\* C5: validateSession treats a session whose expiry equals the current
\* time as expired: it goes on to delete the record and return
\* { null, null }.
C5_ExpiryAtNowIsExpired ==
    [][\A p \in Procs :
        (pc[p] = "vFind" /\ pc'[p] # "vFind"
            /\ rq[p].cookie \in DOMAIN sessions
            /\ sessions[rq[p].cookie].active_expires = now)
            => pc'[p] = "vDelExpired"]_vars

\* C6: no write to a session's stored expiry sets a value smaller than the
\* value it replaces.
C6_ExpiryNeverDecreases ==
    [][\A id \in DOMAIN sessions \cap DOMAIN sessions' :
        sessions'[id].active_expires >= sessions[id].active_expires]_vars

\* C7: two validateSession calls that read the same record and both are
\* about to write an extension carry the same new expiry.
C7_ExtensionsConverge ==
    \A p, q \in Procs :
        (pc[p] = "vUpdate" /\ pc[q] = "vUpdate"
            /\ rq[p].cookie = rq[q].cookie
            /\ rq[p].session = rq[q].session)
            => rq[p].newExpiresAt = rq[q].newExpiresAt

\* C8: validateSession on an unexpired session whose owner is not in the
\* store returns { null, null } and the record is gone when it returns; a
\* session that validateSession returned from has an owner.
C8_OrphanIsDeleted ==
    \A p \in Procs :
        pc[p] = "handler"
            => /\ hist.req[p].orphan
                    => /\ rq[p].reqSession = Null
                       /\ rq[p].reqUser = Null
                       /\ hist.req[p].returned = NullResult
                       /\ rq[p].cookie \notin DOMAIN sessions
               /\ (hist.req[p].storeOps > 0 /\ rq[p].cookie \in DOMAIN sessions)
                    => sessions[rq[p].cookie].user_id \in DOMAIN users

C8_Witness ==
    \E p \in Procs :
        /\ pc[p] = "handler"
        /\ hist.req[p].orphan
        /\ ~hist.req[p].expired
        /\ rq[p].cookie \notin DOMAIN sessions

\* C9: when a store operation of validateSession is rejected, validateSession
\* returns { null, null }: the request goes on to its route handler with
\* request.user and request.session null and no reply sent, and the reply it
\* gets in the end is not a 500.
C9_StoreErrorIsUnauthenticated ==
    \A p \in Procs :
        hist.req[p].fault
            => /\ pc[p] \in {"handler", "idle"}
               /\ pc[p] = "handler"
                    => /\ hist.req[p].returned = NullResult
                       /\ rq[p].reqUser = Null
                       /\ rq[p].reqSession = Null
                       /\ rq[p].reply = Null
               /\ pc[p] = "idle"
                    => /\ rq[p].reply # Null
                       /\ rq[p].reply.status # 500

C9_Witness ==
    \E p \in Procs :
        /\ hist.req[p].fault
        /\ Replied(p, "me")
        /\ rq[p].reply = NotAuthenticatedReply

\* C10: no reply is sent while the hook runs, and a reply comes from a
\* route handler; when the hook has returned, a request without a session
\* cookie has user and session null and validateSession has touched no
\* store, and a request with one has exactly the user and the session that
\* validateSession returned.
C10_HookResolvesIdentity ==
    \A p \in Procs :
        /\ pc[p] \in HookStates \cup {"handler"} => rq[p].reply = Null
        /\ rq[p].reply # Null => hist.req[p].route # "none"
        /\ pc[p] = "handler"
             => IF rq[p].cookie = EmptyToken
                THEN /\ rq[p].reqUser = Null
                     /\ rq[p].reqSession = Null
                     /\ hist.req[p].storeOps = 0
                     /\ hist.req[p].returned = Null
                ELSE /\ hist.req[p].returned # Null
                     /\ hist.req[p].storeOps > 0
                     /\ rq[p].reqUser = hist.req[p].returned.user
                     /\ rq[p].reqSession = hist.req[p].returned.session

\* The hook has returned in both ways: one request came without a cookie,
\* another with the cookie of a session found valid.
C10_Witness ==
    \E p, q \in Procs :
        /\ pc[p] = "handler" /\ rq[p].cookie = EmptyToken
        /\ pc[q] = "handler" /\ rq[q].cookie # EmptyToken
        /\ rq[q].reqSession # Null
        /\ rq[q].reqUser # Null

\* C11: invalidateSession on an id that has no record resolves without an
\* error and leaves the sessions and the users as they were; a second
\* invalidateSession of the same id changes nothing more, and its result is
\* the store one call leaves.
C11_InvalidateStep(sessionId) ==
    InvalidateSession(sessionId)
        => /\ ~hist'.call.threw
           /\ users' = users
           /\ sessionId \notin DOMAIN sessions => sessions' = sessions
           /\ sessionId \notin DOMAIN sessions'
           /\ \A t \in DOMAIN sessions \ {sessionId} :
                 t \in DOMAIN sessions' /\ sessions'[t] = sessions[t]
           /\ hist'.call.again => sessions' = sessions
           /\ SessionFindByIdAndDelete(sessionId)' = sessions'

\* C11, on every call: invalidateSession of an absent id is no error and a
\* no-op, and invalidateSession is idempotent.
C11_InvalidateIdempotent ==
    [][\A sessionId \in IncomingCookies : C11_InvalidateStep(sessionId)]_vars

\* invalidateSession has been called twice in a row on the same issued id:
\* the second call found no record, and other sessions are still stored.
C11_Witness ==
    /\ hist.call # Null
    /\ hist.call.op = "invalidateSession"
    /\ hist.call.again
    /\ ~hist.call.threw
    /\ hist.call.arg \in 1..nextTok
    /\ hist.call.arg \notin DOMAIN sessions
    /\ sessions # <<>>

\* C12: a session id that invalidateSession revoked or that validateSession
\* evicted as expired has no record in the store in any later state; every
\* validateSession that begins after the deletion returns { null, null }.
C12_DeletedStaysDeleted ==
    /\ \A id \in hist.revoked \cup hist.evicted : id \notin DOMAIN sessions
    /\ \A p \in Procs :
        (pc[p] = "handler" /\ (hist.req[p].afterRevoke \/ hist.req[p].late))
            => /\ hist.req[p].returned = NullResult
               /\ rq[p].reqSession = Null
               /\ rq[p].reqUser = Null

\* C12, for the writes: no step puts a record under an id that had none,
\* other than the id createSession has just generated.
C12_NoRecreateStep ==
    \A id \in DOMAIN sessions' \ DOMAIN sessions :
        id = GenerateSessionId /\ nextTok' = GenerateSessionId

\* C12: a revoked or evicted session is never in the store again, whatever
\* runs later or concurrently.
C12_RevokedNeverReturns ==
    []C12_DeletedStaysDeleted /\ [][C12_NoRecreateStep]_vars

\* A logout has revoked the session while a validateSession of the same id
\* was about to write its extension; the write has landed and found no
\* record, and a request that began after the logout has returned.
C12_Witness ==
    \E p, q \in Procs :
        /\ pc[q] = "handler" /\ hist.req[q].wroteAbsent
        /\ rq[q].cookie \in hist.revoked
        /\ pc[p] = "handler" /\ hist.req[p].afterRevoke
        /\ rq[p].cookie = rq[q].cookie
        /\ rq[p].cookie \notin DOMAIN sessions

\* C13: invalidateAllUserSessions(userId) removes exactly the session
\* records whose user_id is userId: no such record is left, every session of
\* another user is still there with the same record, and the users are as
\* they were.
C13_InvalidateAllStep(userId) ==
    InvalidateAllUserSessions(userId)
        => /\ ~hist'.call.threw
           /\ users' = users
           /\ DOMAIN sessions' =
                 {t \in DOMAIN sessions : sessions[t].user_id # userId}
           /\ \A t \in DOMAIN sessions' : sessions'[t] = sessions[t]
           /\ \A t \in DOMAIN sessions' : sessions'[t].user_id # userId

\* C13, on every call of invalidateAllUserSessions.
C13_InvalidateAllFrame ==
    [][\A userId \in UserIds : C13_InvalidateAllStep(userId)]_vars

\* invalidateAllUserSessions has removed the sessions of one user while a
\* session of another user was stored, and that session is still there.
C13_Witness ==
    /\ hist.call # Null
    /\ hist.call.op = "invalidateAllUserSessions"
    /\ hist.call.removed # {}
    /\ hist.call.removed \cap DOMAIN sessions = {}
    /\ \E t \in DOMAIN sessions : sessions[t].user_id # hist.call.arg

\* The cookie the claim describes for a token and a value of secure.
C14_Expected(token, secure) ==
    [name |-> "session",
     value |-> token,
     attributes |-> [httpOnly |-> TRUE,
                     secure |-> secure,
                     sameSite |-> "lax",
                     path |-> "/",
                     maxAge |-> 604800]]

C14_EveryInput ==
    \A token \in IncomingCookies, secure \in BOOLEAN :
        LET cookie == CreateSessionCookie(token, secure) IN
        /\ cookie = C14_Expected(token, secure)
        /\ cookie.attributes.httpOnly
               = CreateSessionCookie(BogusToken, ~secure).attributes.httpOnly
        /\ cookie.attributes.sameSite
               = CreateSessionCookie(BogusToken, ~secure).attributes.sameSite

C14_SetCookieStep ==
    \A p \in Procs, secure \in BOOLEAN :
        ((SignupSession(p, secure) \/ LoginVerify(p, secure))
            /\ rq'[p].reply.cookie # Null)
            => /\ rq'[p].reply.cookie = C14_Expected(GenerateSessionId, secure)
               /\ rq'[p].reply.cookie.value \in DOMAIN sessions' \ DOMAIN sessions

\* C14: for every token and every value of secure, createSessionCookie
\* returns name 'session', the token as value, httpOnly true, sameSite
\* 'lax', path '/', maxAge 604800 and secure as given, and the cookie that a
\* sign-up or a login sets is that cookie for the session just created.
C14_SessionCookie == []C14_EveryInput /\ [][C14_SetCookieStep]_vars

\* A sign-up and a login have each set a session cookie, one with secure
\* true and one with secure false, for two different sessions.
C14_Witness ==
    \E p, q \in Procs :
        /\ Replied(p, "signup") /\ rq[p].reply.cookie # Null
        /\ Replied(q, "login") /\ rq[q].reply.cookie # Null
        /\ rq[p].reply.cookie.attributes.secure
        /\ ~rq[q].reply.cookie.attributes.secure
        /\ rq[p].reply.cookie.value # rq[q].reply.cookie.value
        /\ rq[q].reply.cookie.attributes.maxAge * 1000 = SESSION_DURATION

\* C15, one decision: no identity gives 401 'Authentication required'; an
\* identity whose role is not in a non-empty role set gives 403
\* 'Insufficient permissions'; anything else sends nothing.
C15_Decision(user, roles) ==
    LET sent == RequireAuth(user, roles) IN
    IF user = Null
    THEN /\ sent # Null
         /\ sent.status = 401
         /\ sent.message = "Authentication required"
    ELSE IF roles.given /\ roles.list # {} /\ user.role \notin roles.list
         THEN /\ sent # Null
              /\ sent.status = 403
              /\ sent.message = "Insufficient permissions"
         ELSE sent = Null

C15_GateStep ==
    \A p \in Procs, roles \in GateRoles :
        RequireAuthGate(p, roles)
            => /\ C15_Decision(rq[p].reqUser, roles)
               /\ rq'[p].reply = RequireAuth(rq[p].reqUser, roles)
               /\ users' = users
               /\ sessions' = sessions

\* C15: requireAuth(roles) decides on the resolved identity and the role set
\* alone, as the three cases say, and touches no store.
C15_GateIsPureDecision == [][C15_GateStep]_vars

\* The gate has rejected one identified request with 403 and has let
\* another identified request through.
C15_Witness ==
    \E p, q \in Procs :
        /\ Replied(p, "requireAuth") /\ rq[p].reply.status = 403
        /\ pc[q] = "idle"
        /\ hist.req[q].route = "requireAuth"
        /\ hist.req[q].case = "allowed"
        /\ rq[q].reply = Null

C16_SignupStep(p) ==
    /\ \A email \in SignupEmails, password \in SignupPasswords,
          role \in BodyRoles :
          SignupFind(p, email, password, role)
              => /\ (email = Empty \/ password = Empty)
                      => rq'[p].reply.status = 400
                 /\ (email # Empty /\ password # Empty
                        /\ UserFindOne(email) # Null)
                      => rq'[p].reply.status = 409
    /\ (pc[p] = "suCreate" /\ pc'[p] # "suCreate"
          /\ UserFindOne(rq[p].body.email) # Null)
          => /\ pc'[p] = "idle"
             /\ rq'[p].reply.status = 409
    /\ (pc[p] # "idle" /\ pc'[p] = "idle" /\ hist'.req[p].route = "signup"
          /\ rq'[p].reply.status # 201)
          => /\ users' = users
             /\ sessions' = sessions
             /\ rq'[p].reply.cookie = Null

\* C16: a sign-up without an email or a password replies 400; a sign-up
\* whose email is registered replies 409, also when the email was registered
\* by a concurrent sign-up after this one looked it up; a rejected sign-up
\* creates no user, no session and sets no cookie.
C16_SignupRejections == [][\A p \in Procs : C16_SignupStep(p)]_vars

C17_LogoutStep(p) ==
    (pc[p] = "handler" /\ pc'[p] = "idle" /\ hist'.req[p].route = "logout")
        => /\ rq'[p].reply.status = 200
           /\ rq'[p].reply.cookie = ClearedCookie
           /\ IF rq[p].reqSession # Null
              THEN /\ rq[p].reqSession.id \notin DOMAIN sessions'
                   /\ DOMAIN sessions' = DOMAIN sessions \ {rq[p].reqSession.id}
                   /\ \A t \in DOMAIN sessions' : sessions'[t] = sessions[t]
              ELSE sessions' = sessions

\* C17: every logout clears the session cookie and replies 200, with or
\* without a resolved session and whether the store delete resolves or is
\* rejected; the resolved session has no record afterwards and every other
\* session keeps its record.
C17_LogoutAlwaysSucceeds == [][\A p \in Procs : C17_LogoutStep(p)]_vars

\* The value the hook's validateSession returned for the request of p; a
\* request without a session cookie resolves to nothing.
C18_Resolved(p) ==
    IF rq[p].cookie = EmptyToken THEN NullResult ELSE hist.req[p].returned

C18_MeStep(p) ==
    (pc[p] = "handler" /\ pc'[p] = "idle" /\ hist'.req[p].route = "me")
        => /\ C18_Resolved(p).session # Null
                => /\ rq'[p].reply.status = 200
                   /\ rq'[p].reply.user = C18_Resolved(p).user
                   /\ rq'[p].reply.user.id \in DOMAIN users
           /\ C18_Resolved(p).session = Null
                => /\ rq'[p].reply.status = 401
                   /\ rq'[p].reply.user = Null
           /\ hist.req[p].afterRevoke => rq'[p].reply.status = 401

\* C18: GET /me replies 200 with the user when the cookie of the request
\* resolved to a valid session and 401 when it did not; a request that
\* begins after a logout of its session replies 401.
C18_MeReflectsSession == [][\A p \in Procs : C18_MeStep(p)]_vars

\* One GET /me was answered 200 with the user; another, sent with the same
\* session's cookie after the logout, was answered 401.
C18_Witness ==
    \E p, q \in Procs :
        /\ Replied(q, "me") /\ rq[q].reply.status = 200
        /\ rq[q].reply.user # Null
        /\ Replied(p, "me") /\ rq[p].reply.status = 401
        /\ hist.req[p].afterRevoke
        /\ hist.revoked # {}

\* A user value that leaves the session service or goes into a reply has
\* the fields id, email and role and no other.
C19_Projection(user) ==
    user # Null => DOMAIN user = {"id", "email", "role"}

\* C19: the user that validateSession returns, the user the hook attaches
\* to the request and the user in the body of every sign-up, login and /me
\* reply have only id, email and role: the stored password hash is in none
\* of them, and a reply has no other field that could carry it.
C19_NoPasswordHashLeaves ==
    \A p \in Procs :
        /\ C19_Projection(rq[p].reqUser)
        /\ hist.req[p].returned # Null
              => C19_Projection(hist.req[p].returned.user)
        /\ rq[p].reply # Null
              => /\ C19_Projection(rq[p].reply.user)
                 /\ DOMAIN rq[p].reply =
                       {"status", "error", "message", "user", "cookie"}
                 /\ rq[p].reply.cookie # Null
                       => "hashed_password" \notin DOMAIN rq[p].reply.cookie

\* A login and a GET /me have each been answered 200 with the user, whose
\* record in the store holds the password hash.
C19_Witness ==
    \E p, q \in Procs :
        /\ Replied(p, "login") /\ rq[p].reply.status = 200
        /\ Replied(q, "me") /\ rq[q].reply.status = 200
        /\ rq[q].reply.user = rq[p].reply.user
        /\ rq[p].reply.user.id \in DOMAIN users
        /\ users[rq[p].reply.user.id].hashed_password = Hash("p1")

C20_DefaultRoleStep ==
    \A p \in Procs :
        (pc[p] = "suCreate" /\ pc'[p] = "suSession"
            /\ rq[p].body.role = Empty)
            => users'[rq'[p].userId].role = "assistant"

C20_RoleInClosedSet == \A id \in DOMAIN users : users[id].role \in Roles

\* C20: the role of every stored user is admin, doctor, nurse or assistant,
\* whatever role the body of the sign-up carried, and a sign-up without a
\* role stores 'assistant'.
C20_RolesAreClosed == []C20_RoleInClosedSet /\ [][C20_DefaultRoleStep]_vars

C21_VerifyRaisedStep(p) ==
    (pc[p] = "liVerify" /\ pc'[p] = "idle"
        /\ VerifyRaises(rq[p].user.hashed_password))
        => /\ rq'[p].reply = WrongPasswordReply
           /\ rq'[p].reply.status = 401
           /\ sessions' = sessions
           /\ nextTok' = nextTok

\* C21: a login whose password verification raises because the stored hash
\* is malformed is answered like a wrong password, 401 'Invalid
\* credentials', and creates no session.
C21_MalformedHashIsMismatch == [][\A p \in Procs : C21_VerifyRaisedStep(p)]_vars

C22_LoginStep(p) ==
    (pc[p] = "liVerify" /\ pc'[p] = "idle" /\ rq'[p].reply.status = 200)
        => LET token == rq'[p].reply.cookie.value IN
           /\ DOMAIN sessions' = DOMAIN sessions \cup {token}
           /\ token \notin DOMAIN sessions
           /\ token \notin 1..nextTok
           /\ sessions'[token].user_id = rq[p].user._id
           /\ Verify(users[rq[p].user._id].hashed_password, rq[p].body.password)
           /\ sessions'[token].active_expires = now + 7 * 24 * 60 * 60 * 1000
           /\ \A t \in DOMAIN sessions : sessions'[t] = sessions[t]
           /\ \A t \in DOMAIN sessions : ValidateNow(t)' = ValidateNow(t)
           /\ ValidateNow(rq[p].reply.cookie.value)'.session # Null
           /\ ValidateNow(rq[p].reply.cookie.value)'.user.id = rq[p].user._id

\* C22: a successful login adds exactly one session record, under a token
\* that was never in the store, owned by the user who logged in, expiring 7
\* days from now, and sets the cookie to that token; every session already
\* stored keeps its record and validates as before.
C22_LoginAddsOneSession == [][\A p \in Procs : C22_LoginStep(p)]_vars

\* One user holds two sessions created at different times, both valid, and
\* the latest login has been answered with the cookie of the second.
C22_Witness ==
    \E p \in Procs, t1, t2 \in DOMAIN sessions :
        /\ t1 # t2
        /\ sessions[t1].user_id = sessions[t2].user_id
        /\ sessions[t1].active_expires < sessions[t2].active_expires
        /\ ValidateNow(t1).session # Null
        /\ ValidateNow(t2).session # Null
        /\ Replied(p, "login")
        /\ rq[p].reply.status = 200
        /\ rq[p].reply.cookie.value = t2


\* C23: after any sequence of patient create, update, add-note and
\* delete-note requests, no stored patient has more than 50 notes.
C23_NotesWithinLimit ==
    \A id \in DOMAIN patients : Len(patients[id].notes) <= MaxNotes

\* C24: after any sequence of patient requests every stored first and last
\* name is in the form pre('save') gives it (trimmed, the first letter of
\* each word upper-cased), and giving a name that form twice is the same as
\* giving it once.
C24_StoredNamesNormalized ==
    /\ \A id \in DOMAIN patients :
          /\ patients[id].firstName = PreSaveName(patients[id].firstName)
          /\ patients[id].lastName = PreSaveName(patients[id].lastName)
    /\ \A name \in Names : PreSaveName(PreSaveName(name)) = PreSaveName(name)

\* C25: whenever validateSession returns a session, the expiresAt it returns
\* is the expiry the store holds for that session when the call returns,
\* also when the call has extended the session.
C25_ReturnStep(p) ==
    (/\ pc[p] \in {"vFindUser", "vUpdate"}
     /\ pc'[p] = "handler"
     /\ rq'[p].reqSession # Null
     /\ rq[p].cookie \in DOMAIN sessions')
        => rq'[p].reqSession.expiresAt
               = sessions'[rq[p].cookie].active_expires

C25_ReturnedExpiryIsStored == [][\A p \in Procs : C25_ReturnStep(p)]_vars

\* C26: under any interleaving of validateSession calls, a validation
\* deletes a session only if, at the moment of the delete, the stored expiry
\* of the session has passed or its owner is missing; a session another call
\* has just extended is not deleted by a call that read the older expiry.
C26_DeleteStep(p) ==
    (/\ pc[p] \in {"vDelExpired", "vDelOrphan"}
     /\ rq[p].cookie \in DOMAIN sessions
     /\ rq[p].cookie \notin DOMAIN sessions')
        => \/ sessions[rq[p].cookie].active_expires <= now
           \/ UserFindById(sessions[rq[p].cookie].user_id) = Null

C26_DeleteOnlyExpiredOrOrphan == [][\A p \in Procs : C26_DeleteStep(p)]_vars

\* C27: validateSession never extends, and never returns as valid, a session
\* whose stored expiry is at or before the current time at the moment of the
\* extension write or of the return, even when the clock passes the expiry
\* between the expiry check and the extension.
C27_ExtendOrReturnStep(p) ==
    (/\ pc[p] \in {"vFindUser", "vUpdate"}
     /\ pc'[p] = "handler"
     /\ rq'[p].reqSession # Null
     /\ rq[p].cookie \in DOMAIN sessions)
        => sessions[rq[p].cookie].active_expires > now

C27_ExpiredIsTerminal == [][\A p \in Procs : C27_ExtendOrReturnStep(p)]_vars

\* C28: sign-up is all-or-nothing.  A sign-up answered with anything but
\* 201 leaves the user store and the session store as they were before the
\* request: the reply changes neither store, and a user the request has
\* created is not in the store when the reply is sent, so that the email can
\* be registered by a later sign-up.
C28_FailedSignupStep(p) ==
    (/\ pc[p] \in {"handler", "suCreate", "suSession"}
     /\ pc'[p] = "idle"
     /\ hist'.req[p].route = "signup"
     /\ rq'[p].reply.status # 201)
        => /\ sessions' = sessions
           /\ pc[p] = "suSession" => rq[p].userId \notin DOMAIN users'
           /\ pc[p] # "suSession" => users' = users

C28_SignupAllOrNothing == [][\A p \in Procs : C28_FailedSignupStep(p)]_vars

\* C29: a request passes requireSession only if its token resolves to a
\* valid session, that is, only if the hook has set request.user; a request
\* with a non-empty cookie that names no valid session is answered 401.
C29_SessionGateStep(p) ==
    (/\ pc[p] = "handler"
     /\ pc'[p] = "idle"
     /\ hist'.req[p].route = "requireSession")
        => IF rq[p].reqUser # Null
           THEN hist'.req[p].case = "allowed"
           ELSE /\ hist'.req[p].case = "rejected"
                /\ rq'[p].reply.status = 401

C29_SessionGateNeedsValidSession ==
    [][\A p \in Procs : C29_SessionGateStep(p)]_vars

\* C30: in the serverless entry point setupApp runs to completion at most
\* once per process, under any interleaving of invocations; no request is
\* dispatched before a setup has completed; and after a failed setup
\* setupApp is never started again on an app that holds registrations.
C30_SetupCompletesOnce == srv.completed <= 1

C30_DispatchStep ==
    srv'.dispatched > srv.dispatched
        => srv.appInitialized /\ srv.completed >= 1

C30_SetupStartStep ==
    (srv'.setupCalls > srv.setupCalls /\ srv.setupFailed)
        => \A k \in 1..Len(SetupSteps) : srv.registered[k] = 0

C30_SetupOnceBeforeDispatch ==
    /\ []C30_SetupCompletesOnce
    /\ [][C30_DispatchStep]_vars
    /\ [][C30_SetupStartStep]_vars

============================================================================
